---- MODULE Spec2Model ----
(***************************************************************************)
(* inspektor: the analyzer (internal/analyzer), the inspector              *)
(* (internal/inspector) and the command (cmd/root.go) as state machines.   *)
(*                                                                         *)
(* Strings are sequences of tokens.  A token is an atomic piece of text:   *)
(* a white-space character, one of the three response prefixes, a glyph,   *)
(* a message template, or "x" for any other text.  strings.HasPrefix,      *)
(* TrimSpace, TrimPrefix and Split are computed on the tokens.             *)
(*                                                                         *)
(* A Go slice is a record [isNil, elems]: a nil slice and an empty non-nil *)
(* slice hold the same elements and are different values.                  *)
(***************************************************************************)
EXTENDS Integers, Sequences, FiniteSets, TLC

VARIABLES
    \* analyzer.parseAIResponse under SpecParse
    response, parsed,
    \* an AIAnalyzer and its callers under SpecAnalyzer
    apiKey, newClientFails, a, data, now, calls, aiCalls,
    \* Inspector.findProcessByPort under SpecPort
    port, connections, existing, portResult,
    \* Inspector.collectProcessInfo / collectSystemInfo under SpecCollect
    procReads, procOutcome, sysSource, sysOutcome,
    \* one run of the command under Spec
    pc, args, insp, stdout, stderr, exitCode,
    \* analyzeWithRules on one snapshot under SpecRules
    ruleData, ruleNow, ruleOut,
    \* one AnalyzeAndWarn call, step by step, under SpecCall
    callPc, callAI, callData, ctx, elapsed, answer, callOut,
    \* the goroutines and channels of one text or JSON run under SpecAnim
    mainPc, runArgs, runErr, cur, chans, animPc, term, frames

parseVars == <<response, parsed>>
analyzerVars == <<apiKey, newClientFails, a, data, now, calls, aiCalls>>
portVars == <<port, connections, existing, portResult>>
collectVars == <<procReads, procOutcome, sysSource, sysOutcome>>
cmdVars == <<pc, args, insp, stdout, stderr, exitCode>>
ruleVars == <<ruleData, ruleNow, ruleOut>>
callVars == <<callPc, callAI, callData, ctx, elapsed, answer, callOut>>
animVars == <<mainPc, runArgs, runErr, cur, chans, animPc, term, frames>>
vars == <<parseVars, analyzerVars, portVars, collectVars, cmdVars, ruleVars, callVars, animVars>>

\* A value that stands for "this call has not been made".
NotCalled == [called |-> FALSE]

(***************************************************************************)
(* Bounds                                                                  *)
(***************************************************************************)
\* longest AI response, in tokens, SpecParse draws
MaxRespLen == 5
\* most AnalyzeAndWarn calls SpecAnalyzer makes on one analyzer
MaxCalls == 2
\* most clock ticks between and after the calls of SpecAnalyzer
MaxTicks == 2
\* longest connection table SpecPort draws
MaxConns == 2

(***************************************************************************)
(* Strings and slices                                                      *)
(***************************************************************************)
NL == "\n"
SP == " "
WarningPrefix == "WARNING:"
RecommendPrefix == "RECOMMEND:"
HealthyPrefix == "HEALTHY:"
WarnGlyph == "(warning sign)"
ArrowGlyph == "(rightwards arrow)"
Other == "x"

Tokens == {NL, SP, WarningPrefix, RecommendPrefix, HealthyPrefix, Other}

IsSpace(t) == t \in {NL, SP}

HasPrefix(s, p) == Len(s) > 0 /\ s[1] = p

TrimPrefix(s, p) == IF HasPrefix(s, p) THEN Tail(s) ELSE s

RECURSIVE TrimLeft(_)
TrimLeft(s) ==
    IF s # <<>> /\ IsSpace(Head(s)) THEN TrimLeft(Tail(s)) ELSE s

RECURSIVE TrimRight(_)
TrimRight(s) ==
    IF s # <<>> /\ IsSpace(s[Len(s)]) THEN TrimRight(SubSeq(s, 1, Len(s) - 1)) ELSE s

TrimSpace(s) == TrimRight(TrimLeft(s))

\* strings.Split(s, "\n"): the pieces between the separators; one piece for a
\* string without separator, the empty string included.
RECURSIVE Split(_)
Split(s) ==
    IF \A i \in 1..Len(s) : s[i] # NL
    THEN <<s>>
    ELSE LET i == CHOOSE k \in 1..Len(s) : s[k] = NL /\ \A j \in 1..(k - 1) : s[j] # NL
         IN  <<SubSeq(s, 1, i - 1)>> \o Split(SubSeq(s, i + 1, Len(s)))

NilSlice == [isNil |-> TRUE, elems |-> <<>>]
EmptySlice == [isNil |-> FALSE, elems |-> <<>>]

\* append(s, x)
AppendOne(s, x) == [isNil |-> FALSE, elems |-> Append(s.elems, x)]

\* append(s, t...): appending no element leaves s as it is, nil included.
AppendAll(s, t) ==
    IF t.elems = <<>> THEN s ELSE [isNil |-> FALSE, elems |-> s.elems \o t.elems]

(***************************************************************************)
(* analyzer.parseAIResponse                                                *)
(***************************************************************************)
RECURSIVE parseLines(_, _)
parseLines(lines, warnings) ==
    IF lines = <<>> THEN warnings
    ELSE LET line == TrimSpace(Head(lines)) IN
         IF HasPrefix(line, WarningPrefix)
         THEN LET warning == TrimSpace(TrimPrefix(line, WarningPrefix)) IN
              parseLines(Tail(lines),
                         IF warning # <<>>
                         THEN AppendOne(warnings, <<WarnGlyph, SP>> \o warning)
                         ELSE warnings)
         ELSE IF HasPrefix(line, RecommendPrefix)
         THEN LET recommendation == TrimSpace(TrimPrefix(line, RecommendPrefix)) IN
              parseLines(Tail(lines),
                         IF recommendation # <<>>
                         THEN AppendOne(warnings, <<ArrowGlyph, SP>> \o recommendation)
                         ELSE warnings)
         ELSE IF HasPrefix(line, HealthyPrefix)
         THEN EmptySlice
         ELSE parseLines(Tail(lines), warnings)

\* A parser whose HEALTHY: branch returns the findings collected so far.
RECURSIVE parseLinesKeep(_, _)
parseLinesKeep(lines, warnings) ==
    IF lines = <<>> THEN warnings
    ELSE LET line == TrimSpace(Head(lines)) IN
         IF HasPrefix(line, HealthyPrefix)
         THEN warnings
         ELSE parseLinesKeep(Tail(lines), parseLines(<<Head(lines)>>, warnings))

parseAIResponseKeep(resp) == parseLinesKeep(Split(resp), NilSlice)

\* A parser that puts each finding in front of the ones collected so far.
RECURSIVE parseLinesPrepend(_, _)
parseLinesPrepend(lines, warnings) ==
    IF lines = <<>> THEN warnings
    ELSE LET one == parseLines(<<Head(lines)>>, NilSlice) IN
         IF HasPrefix(TrimSpace(Head(lines)), HealthyPrefix)
         THEN EmptySlice
         ELSE parseLinesPrepend(Tail(lines), AppendAll(one, warnings))

parseAIResponsePrepend(resp) == parseLinesPrepend(Split(resp), NilSlice)

parseAIResponse(resp) == parseLines(Split(resp), NilSlice)

(***************************************************************************)
(* The snapshot (models.InspectionData) and the rule-based strategy.       *)
(*                                                                         *)
(* Percentages are whole numbers.  A uint64 byte count is [hi, lo]: the    *)
(* value hi * 2^62 + lo * 2^20 bytes, hi in 0..3 and lo below 2^20, so     *)
(* that a product by 3 wraps modulo 2^64 as the machine's does.  Times are *)
(* seconds.                                                                *)
(***************************************************************************)
U64(hi, lo) == [hi |-> hi, lo |-> lo]

MB(n) == U64(0, n)

\* a > b on uint64
U64Gt(x, y) == x.hi > y.hi \/ (x.hi = y.hi /\ x.lo > y.lo)

\* a * 3 on uint64: modulo 2^64 (3 * lo stays below 2^42, no carry)
U64Mul3(x) == U64((3 * x.hi) % 4, 3 * x.lo)

\* float64(free) / float64(total) * 100 < 10.  A zero total gives NaN or
\* +Inf, and the comparison is false.
FreeBelowTenPercent(free, total) ==
    /\ total # U64(0, 0)
    /\ \/ 10 * free.hi < total.hi
       \/ (10 * free.hi = total.hi /\ 10 * free.lo < total.lo)

formatBytes(bytes) == ToString(bytes)

ToLower(status) ==
    CASE status = "Z" -> "z"
      [] status = "T" -> "t"
      [] status = "R" -> "r"
      [] status = "S" -> "s"
      [] status = "Zombie" -> "zombie"
      [] status = "ZOMBIE" -> "zombie"
      [] status = "Stopped" -> "stopped"
      [] OTHER -> status

analyzeCPU(d) ==
    LET w1 == IF d.Process.CPUPercent > 80
              THEN AppendOne(NilSlice, <<"High CPU usage detected", ToString(d.Process.CPUPercent)>>)
              ELSE IF d.Process.CPUPercent > 50
              THEN AppendOne(NilSlice, <<"Moderate CPU usage", ToString(d.Process.CPUPercent)>>)
              ELSE NilSlice
    IN  IF d.System.CPUUsage > 90
        THEN AppendOne(w1, <<"Critical system CPU load", ToString(d.System.CPUUsage)>>)
        ELSE IF d.System.CPUUsage > 75
        THEN AppendOne(w1, <<"High system CPU load", ToString(d.System.CPUUsage)>>)
        ELSE w1

analyzeMemory(d) ==
    LET w1 == IF d.Process.MemoryPercent > 10
              THEN AppendOne(NilSlice, <<"High memory usage: Process", ToString(d.Process.MemoryPercent),
                                         formatBytes(d.Process.MemoryRSS)>>)
              ELSE NilSlice
        w2 == IF U64Gt(d.Process.MemoryVMS, U64Mul3(d.Process.MemoryRSS))
              THEN AppendOne(w1, <<"Potential memory leak", formatBytes(d.Process.MemoryVMS),
                                   formatBytes(d.Process.MemoryRSS)>>)
              ELSE w1
    IN  IF d.System.MemoryPercent > 90
        THEN AppendOne(w2, <<"Critical memory pressure", ToString(d.System.MemoryPercent)>>)
        ELSE IF d.System.MemoryPercent > 80
        THEN AppendOne(w2, <<"High memory usage: System", ToString(d.System.MemoryPercent)>>)
        ELSE w2

\* time.Since(CreateTime) < time.Minute, `clock` the wall clock of the call
RecentlyStarted(d, clock) == clock - d.Process.CreateTime < 60

analyzeProcess(d, clock) ==
    LET w1 == IF RecentlyStarted(d, clock)
              THEN AppendOne(NilSlice, <<"Recently started process">>)
              ELSE NilSlice
        status == ToLower(d.Process.Status)
        w2 == IF status = "zombie"
              THEN AppendOne(w1, <<"Zombie process detected">>)
              ELSE IF status = "stopped"
              THEN AppendOne(w1, <<"Process is currently stopped">>)
              ELSE w1
        w3 == IF d.Process.OpenFiles > 1000
              THEN AppendOne(w2, <<"High file descriptor usage", ToString(d.Process.OpenFiles)>>)
              ELSE w2
        w4 == IF d.Process.Connections > 100
              THEN AppendOne(w3, <<"High network connections", ToString(d.Process.Connections)>>)
              ELSE w3
    IN  IF d.Process.Children > 50
        THEN AppendOne(w4, <<"Many child processes", ToString(d.Process.Children)>>)
        ELSE w4

analyzeSystem(d) ==
    LET w1 == IF d.System.CPUCores <= 2 /\ d.System.CPUUsage > 60
              THEN AppendOne(NilSlice, <<"Limited CPU resources", ToString(d.System.CPUCores),
                                         ToString(d.System.CPUUsage)>>)
              ELSE NilSlice
    IN  IF FreeBelowTenPercent(d.System.MemoryFree, d.System.MemoryTotal)
        THEN AppendOne(w1, <<"Low free memory", formatBytes(d.System.MemoryFree)>>)
        ELSE w1

\* A rule-based strategy that appends the memory group before the CPU group.
analyzeWithRulesMemoryFirst(d, clock) ==
    AppendAll(AppendAll(AppendAll(AppendAll(NilSlice,
        analyzeMemory(d)), analyzeCPU(d)), analyzeProcess(d, clock)), analyzeSystem(d))

analyzeWithRules(d, clock) ==
    AppendAll(AppendAll(AppendAll(AppendAll(NilSlice,
        analyzeCPU(d)), analyzeMemory(d)), analyzeProcess(d, clock)), analyzeSystem(d))

(***************************************************************************)
(* analyzer.New, AnalyzeAndWarn, analyzeWithAI, Close                      *)
(*                                                                         *)
(* An analyzer is [aiEnabled, client], client one of "nil", "open",        *)
(* "closed".  The answer of model.GenerateContent is [err, Candidates]:    *)
(* err is "nil" or the error, a candidate is [Content], and a Content is   *)
(* [isNil, Parts] for the pointer and the parts it points to.              *)
(***************************************************************************)
New(key, clientErr) ==
    IF key = ""
    THEN [a |-> [aiEnabled |-> FALSE, client |-> "nil"],
          log |-> <<"Warning: GEMINI_API_KEY not found">>]
    ELSE IF clientErr
    THEN [a |-> [aiEnabled |-> FALSE, client |-> "nil"],
          log |-> <<"Warning: Failed to initialize Gemini client">>]
    ELSE [a |-> [aiEnabled |-> TRUE, client |-> "open"], log |-> <<>>]

\* What a call of AnalyzeAndWarn does: it panics or returns `ret`; `log` is
\* what it writes with the log package, `aiCalled` whether it called the
\* backend, `strategy` the strategy whose list it returns.
Returned(ret, strategy, aiCalled, log) ==
    [panic |-> FALSE, ret |-> ret, strategy |-> strategy, aiCalled |-> aiCalled, log |-> log]

Panicked(aiCalled) ==
    [panic |-> TRUE, ret |-> NilSlice, strategy |-> "none", aiCalled |-> aiCalled, log |-> <<>>]

analyzeWithAI(d, backend, clock) ==
    IF backend.err # "nil"
    THEN Returned(analyzeWithRules(d, clock), "rules", TRUE, <<"AI analysis failed">>)
    ELSE IF Len(backend.Candidates) = 0
    THEN Returned(analyzeWithRules(d, clock), "rules", TRUE, <<"No AI response received">>)
    \* resp.Candidates[0].Content.Parts with a nil Content
    ELSE IF backend.Candidates[1].Content.isNil
    THEN Panicked(TRUE)
    ELSE IF Len(backend.Candidates[1].Content.Parts) = 0
    THEN Returned(analyzeWithRules(d, clock), "rules", TRUE, <<"No AI response received">>)
    ELSE Returned(parseAIResponse(backend.Candidates[1].Content.Parts[1]), "ai", TRUE, <<>>)

AnalyzeAndWarn(an, d, backend, clock) ==
    IF an.aiEnabled
    THEN analyzeWithAI(d, backend, clock)
    ELSE Returned(analyzeWithRules(d, clock), "rules", FALSE, <<>>)

\* A Close that also switches the AI strategy off.
CloseDisablingAI(an) == [an EXCEPT !.aiEnabled = FALSE, !.client = IF @ = "nil" THEN "nil" ELSE "closed"]

Close(an) == [an EXCEPT !.client = IF @ = "nil" THEN "nil" ELSE "closed"]

(***************************************************************************)
(* Inputs of the analyzer                                                  *)
(***************************************************************************)
\* the wall clock, in seconds, when a snapshot is taken
StartNow == 100000
\* seconds the wall clock advances in one tick
TickSeconds == 45

BaseProcess ==
    [PID |-> 1, Name |-> "nginx", Executable |-> "/usr/sbin/nginx", CommandLine |-> "nginx -g",
     WorkingDir |-> "/", Status |-> "S", CPUPercent |-> 0, MemoryRSS |-> MB(10), MemoryVMS |-> MB(20),
     MemoryPercent |-> 0, CreateTime |-> StartNow - 3600,
     Connections |-> 0, OpenFiles |-> 0, Children |-> 0]

BaseSystem ==
    [CPUCores |-> 4, CPUModel |-> "cpu", CPUUsage |-> 10, MemoryTotal |-> MB(1000),
     MemoryUsed |-> MB(500), MemoryPercent |-> 50, MemoryFree |-> MB(500)]

AnalyzerSnapshots ==
    { [Process |-> [BaseProcess EXCEPT !.CPUPercent = c, !.CreateTime = t],
       System |-> [BaseSystem EXCEPT !.CPUUsage = u]] :
      c \in {0, 85}, t \in {StartNow - 30, StartNow - 3600}, u \in {10, 95} }

AIResponses ==
    { <<>>, <<Other>>, <<HealthyPrefix, SP, Other>>, <<WarningPrefix, SP, Other>>,
      <<WarningPrefix, SP, Other, NL, RecommendPrefix, SP, Other>> }

NoContent == [isNil |-> TRUE, Parts |-> <<>>]

BackendErrors ==
    { [err |-> e, Candidates |-> <<>>] : e \in {"context deadline exceeded", "transport"} }

BackendResponses ==
    { [err |-> "nil", Candidates |-> <<>>],
      [err |-> "nil", Candidates |-> << [Content |-> NoContent] >>],
      [err |-> "nil", Candidates |-> << [Content |-> [isNil |-> FALSE, Parts |-> <<>>]] >>] }
    \cup { [err |-> "nil", Candidates |-> << [Content |-> [isNil |-> FALSE, Parts |-> <<r>>]] >>] :
           r \in AIResponses }

\* A closed client answers with an error.
Backends(an) == IF an.client = "closed" THEN BackendErrors ELSE BackendErrors \cup BackendResponses

(***************************************************************************)
(* Values of the variables a specification does not use                    *)
(***************************************************************************)
NoAnalyzer == [constructed |-> FALSE, aiEnabled |-> FALSE, client |-> "nil", panicked |-> FALSE]

ParseIdle == response = <<>> /\ parsed = NotCalled

AnalyzerIdle ==
    /\ apiKey = "" /\ newClientFails = FALSE /\ a = NoAnalyzer /\ data = NotCalled
    /\ now = 0 /\ calls = <<>> /\ aiCalls = 0

PortIdle == port = NotCalled /\ connections = <<>> /\ existing = {} /\ portResult = NotCalled

CollectIdle ==
    procReads = NotCalled /\ procOutcome = NotCalled /\ sysSource = NotCalled /\ sysOutcome = NotCalled

CmdIdle ==
    pc = "idle" /\ args = NotCalled /\ insp = NotCalled /\ stdout = <<>> /\ stderr = <<>>
    /\ exitCode = -1

RulesIdle == ruleData = NotCalled /\ ruleNow = 0 /\ ruleOut = NotCalled

CallIdle ==
    /\ callPc = "idle" /\ callAI = FALSE /\ callData = NotCalled /\ ctx = "none"
    /\ elapsed = 0 /\ answer = NotCalled /\ callOut = NotCalled

AnimIdle ==
    /\ mainPc = "idle" /\ runArgs = NotCalled /\ runErr = "none" /\ cur = 0 /\ chans = <<>>
    /\ animPc = <<>> /\ term = <<>> /\ frames = 0

(***************************************************************************)
(* SpecParse: parseAIResponse on every response of at most MaxRespLen      *)
(* tokens                                                                  *)
(***************************************************************************)
SeqsUpTo(S, n) == UNION { [1..k -> S] : k \in 0..n }

InitParse ==
    /\ response \in SeqsUpTo(Tokens, MaxRespLen)
    /\ parsed = NotCalled
    /\ AnalyzerIdle /\ PortIdle /\ CollectIdle /\ CmdIdle /\ RulesIdle /\ CallIdle /\ AnimIdle

ParseAIResponse ==
    /\ ~parsed.called
    /\ parsed' = [called |-> TRUE, ret |-> parseAIResponse(response)]
    /\ UNCHANGED <<response, analyzerVars, portVars, collectVars, cmdVars, ruleVars, callVars, animVars>>

NextParse == ParseAIResponse

SpecParse == InitParse /\ [][NextParse]_vars

\* Some line of the response begins, once trimmed, with HEALTHY:.
HasHealthyLine(resp) ==
    \E i \in 1..Len(Split(resp)) : HasPrefix(TrimSpace(Split(resp)[i]), HealthyPrefix)

\* C10: whenever a line of the response begins, after trimming, with
\* HEALTHY:, parseAIResponse returns an empty finding list, wherever the line
\* stands and whatever lines come before or after it.
C10_HealthyShortCircuits ==
    (parsed.called /\ HasHealthyLine(response)) => parsed.ret.elems = <<>>

\* A HEALTHY: line that follows a WARNING: line carrying a text.
C10_Witness ==
    /\ parsed.called
    /\ Len(Split(response)) >= 2
    /\ HasPrefix(TrimSpace(Split(response)[1]), WarningPrefix)
    /\ TrimSpace(TrimPrefix(TrimSpace(Split(response)[1]), WarningPrefix)) # <<>>
    /\ HasPrefix(TrimSpace(Split(response)[2]), HealthyPrefix)
    /\ parsed.ret.elems = <<>>

\* The lines of the response that begin, once trimmed, with WARNING: or
\* RECOMMEND:, by position.
PrefixedLines(resp) ==
    { i \in 1..Len(Split(resp)) :
        \/ HasPrefix(TrimSpace(Split(resp)[i]), WarningPrefix)
        \/ HasPrefix(TrimSpace(Split(resp)[i]), RecommendPrefix) }

\* The trimmed text that follows the prefix of line i.
LineText(resp, i) == TrimSpace(Tail(TrimSpace(Split(resp)[i])))

\* The prefixed lines that carry a text.
TextLines(resp) == { i \in PrefixedLines(resp) : LineText(resp, i) # <<>> }

\* The glyph of the kind of line i: Warning or Recommendation.
KindGlyph(resp, i) ==
    IF HasPrefix(TrimSpace(Split(resp)[i]), WarningPrefix) THEN WarnGlyph ELSE ArrowGlyph

\* The k-th smallest number of S.
Nth(S, k) == CHOOSE x \in S : Cardinality({ y \in S : y < x }) = k - 1

\* One finding for each line of S, in line order, of the line's kind and
\* carrying the line's text.
FindingsOfLines(resp, S) ==
    [ k \in 1..Cardinality(S) |-> <<KindGlyph(resp, Nth(S, k)), SP>> \o LineText(resp, Nth(S, k)) ]

\* C11 as stated: for a response without HEALTHY: line, parseAIResponse
\* returns exactly one finding per line that begins, after trimming, with
\* WARNING: or RECOMMEND:, of that kind and with that line's trimmed text, in
\* line order; the other lines contribute nothing.
C11_AsStated ==
    (parsed.called /\ ~HasHealthyLine(response))
        => parsed.ret.elems = FindingsOfLines(response, PrefixedLines(response))

\* C11, amended: one finding per prefixed line whose text, after the prefix
\* and trimmed, is not empty, of that line's kind, with that text and in line
\* order; a prefixed line without text and a line without prefix contribute
\* nothing.
C11_OneFindingPerTextLine ==
    (parsed.called /\ ~HasHealthyLine(response))
        => parsed.ret.elems = FindingsOfLines(response, TextLines(response))

\* A line without prefix, a WARNING: line without text and a RECOMMEND: line
\* with a text: one finding, the Recommendation.
C11_Witness ==
    /\ parsed.called /\ ~HasHealthyLine(response)
    /\ Len(Split(response)) = 3
    /\ PrefixedLines(response) = {2, 3}
    /\ HasPrefix(TrimSpace(Split(response)[2]), WarningPrefix)
    /\ TextLines(response) = {3}
    /\ parsed.ret.elems = << <<ArrowGlyph, SP, Other>> >>

(***************************************************************************)
(* SpecAnalyzer: one analyzer, constructed once, then called and closed in *)
(* any order while the wall clock advances.  Every call gets the same      *)
(* snapshot `data`; `calls` records each call: the clock, the mode, the    *)
(* backend's answer and what the call did.                                 *)
(***************************************************************************)
NoBackend == [err |-> "not called", Candidates |-> <<>>]

InitAnalyzer ==
    /\ apiKey \in {"", "key"}
    /\ newClientFails \in BOOLEAN
    /\ a = NoAnalyzer
    /\ data \in AnalyzerSnapshots
    /\ now = StartNow
    /\ calls = <<>>
    /\ aiCalls = 0
    /\ ParseIdle /\ PortIdle /\ CollectIdle /\ CmdIdle /\ RulesIdle /\ CallIdle /\ AnimIdle

ANew ==
    /\ ~a.constructed
    /\ a' = [constructed |-> TRUE, panicked |-> FALSE,
             aiEnabled |-> New(apiKey, newClientFails).a.aiEnabled,
             client |-> New(apiKey, newClientFails).a.client]
    /\ UNCHANGED <<apiKey, newClientFails, data, now, calls, aiCalls>>
    /\ UNCHANGED <<parseVars, portVars, collectVars, cmdVars, ruleVars, callVars, animVars>>

AAnalyzeAndWarn ==
    /\ a.constructed /\ ~a.panicked
    /\ Len(calls) < MaxCalls
    /\ \E backend \in IF a.aiEnabled THEN Backends(a) ELSE {NoBackend} :
         LET out == AnalyzeAndWarn(a, data, backend, now) IN
         /\ calls' = Append(calls, [at |-> now, aiEnabled |-> a.aiEnabled,
                                    backend |-> backend, out |-> out])
         /\ aiCalls' = aiCalls + (IF out.aiCalled THEN 1 ELSE 0)
         /\ a' = [a EXCEPT !.panicked = out.panic]
    /\ UNCHANGED <<apiKey, newClientFails, data, now>>
    /\ UNCHANGED <<parseVars, portVars, collectVars, cmdVars, ruleVars, callVars, animVars>>

AClose ==
    /\ a.constructed /\ ~a.panicked
    /\ a' = [a EXCEPT !.aiEnabled = Close(a).aiEnabled, !.client = Close(a).client]
    /\ UNCHANGED <<apiKey, newClientFails, data, now, calls, aiCalls>>
    /\ UNCHANGED <<parseVars, portVars, collectVars, cmdVars, ruleVars, callVars, animVars>>

ATick ==
    /\ now < StartNow + MaxTicks * TickSeconds
    /\ now' = now + TickSeconds
    /\ UNCHANGED <<apiKey, newClientFails, a, data, calls, aiCalls>>
    /\ UNCHANGED <<parseVars, portVars, collectVars, cmdVars, ruleVars, callVars, animVars>>

NextAnalyzer == ANew \/ AAnalyzeAndWarn \/ AClose \/ ATick

SpecAnalyzer == InitAnalyzer /\ [][NextAnalyzer]_vars

\* C1: AnalyzeAndWarn never fails towards its caller: whatever the backend
\* answers (an error, a timeout, no candidate, a candidate without content
\* or without parts, any text), the call returns a finding list and does
\* not panic.
C1_NeverPanics ==
    \A i \in DOMAIN calls : ~calls[i].out.panic

\* No line of the text carries one of the three prefixes.
NoPrefixedLine(text) ==
    \A i \in 1..Len(Split(text)) :
        LET line == TrimSpace(Split(text)[i]) IN
        /\ ~HasPrefix(line, WarningPrefix)
        /\ ~HasPrefix(line, RecommendPrefix)
        /\ ~HasPrefix(line, HealthyPrefix)

\* The backend's answer is an error (a timeout is one), or it is empty or
\* malformed.
BackendFailed(b) ==
    \/ b.err # "nil"
    \/ Len(b.Candidates) = 0
    \/ b.Candidates[1].Content.isNil
    \/ Len(b.Candidates[1].Content.Parts) = 0
    \/ NoPrefixedLine(b.Candidates[1].Content.Parts[1])

\* C2: an AIReady call whose backend call times out, fails or answers with
\* an empty or malformed payload returns exactly the list analyzeWithRules
\* gives for the same snapshot.  Stated of the calls that return.
C2_FallbackIsRuleList ==
    \A i \in DOMAIN calls :
        (calls[i].aiEnabled /\ BackendFailed(calls[i].backend) /\ ~calls[i].out.panic)
            => calls[i].out.ret = analyzeWithRules(data, calls[i].at)

\* C3: the mode is the one New decides (AIReady iff the API key is not empty
\* and the client was created) and no AnalyzeAndWarn or Close changes it: a
\* call that fell back leaves an AIReady analyzer AIReady, and a RuleOnly
\* analyzer never calls the backend.
C3_ModeFixedByNew ==
    a.constructed =>
        /\ a.aiEnabled <=> (apiKey # "" /\ ~newClientFails)
        /\ \A i \in DOMAIN calls : calls[i].aiEnabled = a.aiEnabled
        /\ ~a.aiEnabled => aiCalls = 0
        /\ a.aiEnabled => aiCalls = Len(calls)

\* An AIReady analyzer after a call that fell back, a second call and a Close.
C3_Witness ==
    /\ a.constructed /\ a.aiEnabled /\ a.client = "closed"
    /\ Len(calls) = 2
    /\ calls[1].out.strategy = "rules"
    /\ calls[2].out.strategy = "ai"

\* C4: in RuleOnly mode two calls with the same snapshot return the same
\* ordered list, whatever the wall clock at each call.
C4_RuleOnlyDeterministic ==
    \A i, j \in DOMAIN calls :
        (~calls[i].aiEnabled /\ ~calls[j].aiEnabled) => calls[i].out.ret = calls[j].out.ret

(***************************************************************************)
(* Inspector.findProcessByPort                                             *)
(*                                                                         *)
(* The requested port is a Go int of 64 bits: the record [hi, lo] is the   *)
(* number hi * 2^32 + lo, with lo below 2^32.  A connection's local port   *)
(* is a uint32.  `conns` is what net.Connections returns, [err, list];     *)
(* `exists` the identifiers for which process.NewProcess succeeds.         *)
(***************************************************************************)
Int64(hi, lo) == [hi |-> hi, lo |-> lo]

\* uint32(port): the low 32 bits
Uint32(p) == p.lo

ErrConnections == "failed to get network connections"
ErrNoListener == "no process found listening on port"
ErrNoValidProcess == "no valid process found listening on port"

RECURSIVE candidatePIDs(_, _)
candidatePIDs(list, p) ==
    IF list = <<>> THEN <<>>
    ELSE IF Head(list).Laddr.Port = Uint32(p) /\ Head(list).Status = "LISTEN"
         THEN <<Head(list).Pid>> \o candidatePIDs(Tail(list), p)
         ELSE candidatePIDs(Tail(list), p)

RECURSIVE firstValid(_, _)
firstValid(pids, exists) ==
    IF pids = <<>> THEN [pid |-> 0, err |-> ErrNoValidProcess]
    ELSE IF Head(pids) > 0 /\ Head(pids) \in exists
         THEN [pid |-> Head(pids), err |-> "nil"]
         ELSE firstValid(Tail(pids), exists)

\* A loop that returns the first positive candidate without looking at the
\* probe's answer.
RECURSIVE firstPositive(_)
firstPositive(pids) ==
    IF pids = <<>> THEN [pid |-> 0, err |-> ErrNoValidProcess]
    ELSE IF Head(pids) > 0
         THEN [pid |-> Head(pids), err |-> "nil"]
         ELSE firstPositive(Tail(pids))

findProcessByPortUnprobed(p, conns, exists) ==
    IF conns.err THEN [pid |-> 0, err |-> ErrConnections]
    ELSE IF candidatePIDs(conns.list, p) = <<>> THEN [pid |-> 0, err |-> ErrNoListener]
    ELSE firstPositive(candidatePIDs(conns.list, p))

findProcessByPort(p, conns, exists) ==
    IF conns.err THEN [pid |-> 0, err |-> ErrConnections]
    ELSE IF candidatePIDs(conns.list, p) = <<>> THEN [pid |-> 0, err |-> ErrNoListener]
    ELSE firstValid(candidatePIDs(conns.list, p), exists)

(***************************************************************************)
(* SpecPort: findProcessByPort on every table of at most MaxConns entries  *)
(***************************************************************************)
Ports == { Int64(h, l) : h \in {0, 1}, l \in {80, 81} }

Pids == {0, 1, 2}

Conns ==
    { [Laddr |-> [Port |-> l], Status |-> st, Pid |-> pid] :
      l \in {80, 81}, st \in {"LISTEN", "ESTABLISHED"}, pid \in Pids }

ConnTables ==
    { [err |-> TRUE, list |-> <<>>] }
    \cup { [err |-> FALSE, list |-> t] : t \in SeqsUpTo(Conns, MaxConns) }

InitPort ==
    /\ port \in Ports
    /\ connections \in ConnTables
    /\ existing \in SUBSET {1, 2}
    /\ portResult = NotCalled
    /\ ParseIdle /\ AnalyzerIdle /\ CollectIdle /\ CmdIdle /\ RulesIdle /\ CallIdle /\ AnimIdle

FindProcessByPort ==
    /\ ~portResult.called
    /\ portResult' = [called |-> TRUE,
                      candidates |-> candidatePIDs(connections.list, port),
                      pid |-> findProcessByPort(port, connections, existing).pid,
                      err |-> findProcessByPort(port, connections, existing).err]
    /\ UNCHANGED <<port, connections, existing>>
    /\ UNCHANGED <<parseVars, analyzerVars, collectVars, cmdVars, ruleVars, callVars, animVars>>

NextPort == FindProcessByPort

SpecPort == InitPort /\ [][NextPort]_vars

\* The entry listens on the requested port: its local port is the requested
\* number.
ListensOn(conn, p) == p.hi = 0 /\ conn.Laddr.Port = p.lo /\ conn.Status = "LISTEN"

\* The table's entries that listen on the requested port, by position.
Listeners(list, p) == { i \in 1..Len(list) : ListensOn(list[i], p) }

\* The listeners whose identifier is positive and passes the probe.
Qualifying(list, p, exists) ==
    { i \in Listeners(list, p) : list[i].Pid > 0 /\ list[i].Pid \in exists }

\* C5: over a table without an entry that listens on the requested port,
\* findProcessByPort returns the no-listener error and no identifier.
C5_NoListenerError ==
    (portResult.called /\ ~connections.err /\ Listeners(connections.list, port) = {})
        => (portResult.err = ErrNoListener /\ portResult.pid = 0)

\* C6: when some entry listens on the requested port, findProcessByPort
\* returns the first of them, in table order, whose identifier is positive
\* and passes the existence probe; it never returns an identifier <= 0; and
\* it returns the no-valid-process error exactly when no listener qualifies.
C6_FirstValidCandidate ==
    (portResult.called /\ ~connections.err /\ Listeners(connections.list, port) # {})
        => LET q == Qualifying(connections.list, port, existing) IN
           /\ q # {} =>
                /\ portResult.err = "nil"
                /\ portResult.pid > 0
                /\ \E i \in q : /\ \A j \in q : i <= j
                                /\ portResult.pid = connections.list[i].Pid
           /\ q = {} <=> (portResult.err = ErrNoValidProcess /\ portResult.pid = 0)

\* Two listeners: the first one's process is gone, the second one's is there.
C6_Witness ==
    /\ portResult.called /\ ~connections.err
    /\ Len(connections.list) = 2
    /\ Listeners(connections.list, port) = {1, 2}
    /\ connections.list[1].Pid > 0
    /\ connections.list[1].Pid \notin existing
    /\ Qualifying(connections.list, port, existing) = {2}
    /\ portResult.pid = connections.list[2].Pid

\* The identifiers of the entries that listen on the requested port, in
\* table order.
ListenerPIDs(list, p) ==
    [ k \in 1..Cardinality(Listeners(list, p)) |-> list[Nth(Listeners(list, p), k)].Pid ]

\* C19: the candidates of findProcessByPort are the entries whose local
\* port is the requested number and whose state is LISTEN, for every
\* requested number, those of 2^32 and more included: no entry on another
\* port becomes a candidate.
C19_CandidatesOnRequestedPort ==
    (portResult.called /\ ~connections.err)
        => portResult.candidates = ListenerPIDs(connections.list, port)

(***************************************************************************)
(* Inspector.collectProcessInfo and collectSystemInfo                      *)
(*                                                                         *)
(* `reads` gives, for each attribute read of the process, what the metrics *)
(* source returns: [err, val].  A read that fails returns the zero value   *)
(* of its type with the error; MemoryInfo returns a pointer, nil then.     *)
(* The list reads (connections, open files, children) return sequences.    *)
(***************************************************************************)
ReadNames ==
    {"Name", "Exe", "Cmdline", "Cwd", "Status", "CPUPercent", "MemoryInfo", "MemoryPercent",
     "CreateTime", "Connections", "OpenFiles", "Children"}

NilMemoryInfo == [isNil |-> TRUE, RSS |-> U64(0, 0), VMS |-> U64(0, 0)]

ZeroValue(k) ==
    CASE k \in {"Name", "Exe", "Cmdline", "Cwd", "Status"} -> ""
      [] k \in {"CPUPercent", "MemoryPercent", "CreateTime"} -> 0
      [] k = "MemoryInfo" -> NilMemoryInfo
      [] OTHER -> <<>>

\* what the read returns for the inspected process when it succeeds
OkValue(k) ==
    CASE k = "Name" -> "nginx"
      [] k = "Exe" -> "/usr/sbin/nginx"
      [] k = "Cmdline" -> "nginx -g"
      [] k = "Cwd" -> "/"
      [] k = "Status" -> "Z"
      [] k = "CPUPercent" -> 85
      [] k = "MemoryInfo" -> [isNil |-> FALSE, RSS |-> MB(10), VMS |-> MB(35)]
      [] k = "MemoryPercent" -> 15
      [] k = "CreateTime" -> (StartNow - 30) * 1000
      [] OTHER -> <<"item", "item">>

\* what the reads return of a sleeping process that uses little
QuietValue(k) ==
    CASE k = "Status" -> "S"
      [] k = "CPUPercent" -> 5
      [] k = "MemoryInfo" -> [isNil |-> FALSE, RSS |-> MB(10), VMS |-> MB(20)]
      [] k = "MemoryPercent" -> 1
      [] k = "CreateTime" -> (StartNow - 3600) * 1000
      [] OTHER -> OkValue(k)

QuietReads == [k \in ReadNames |-> [err |-> FALSE, val |-> QuietValue(k)]]

\* the reads of a process of which exactly the reads in `failing` fail
ProcReads(failing) ==
    [k \in ReadNames |-> IF k \in failing THEN [err |-> TRUE, val |-> ZeroValue(k)]
                                          ELSE [err |-> FALSE, val |-> OkValue(k)]]

collectProcessInfo(pid, reads) ==
    \* memInfo.RSS with a nil memInfo
    IF reads["MemoryInfo"].val.isNil
    THEN [panic |-> TRUE, err |-> "nil", info |-> NotCalled]
    ELSE [panic |-> FALSE, err |-> "nil",
          info |-> [PID |-> pid,
                    Name |-> reads["Name"].val,
                    Executable |-> reads["Exe"].val,
                    CommandLine |-> reads["Cmdline"].val,
                    WorkingDir |-> reads["Cwd"].val,
                    Status |-> reads["Status"].val,
                    CPUPercent |-> reads["CPUPercent"].val,
                    MemoryRSS |-> reads["MemoryInfo"].val.RSS,
                    MemoryVMS |-> reads["MemoryInfo"].val.VMS,
                    MemoryPercent |-> reads["MemoryPercent"].val,
                    CreateTime |-> reads["CreateTime"].val \div 1000,
                    Connections |-> Len(reads["Connections"].val),
                    OpenFiles |-> Len(reads["OpenFiles"].val),
                    Children |-> Len(reads["Children"].val)]]

\* `src` is what cpu.Info, cpu.Percent and mem.VirtualMemory return:
\* [err, list] for the first two, [err, val] for the third.
collectSystemInfo(src) ==
    IF src.cpuInfo.err \/ src.cpuPercent.err \/ src.memInfo.err
    THEN [panic |-> FALSE, err |-> "collection", info |-> NotCalled]
    \* cpuInfo[0] and cpuPercent[0]: index out of range on an empty list
    ELSE IF Len(src.cpuInfo.list) = 0 \/ Len(src.cpuPercent.list) = 0
    THEN [panic |-> TRUE, err |-> "nil", info |-> NotCalled]
    ELSE [panic |-> FALSE, err |-> "nil",
          info |-> [CPUCores |-> Len(src.cpuInfo.list),
                    CPUModel |-> src.cpuInfo.list[1].ModelName,
                    CPUUsage |-> src.cpuPercent.list[1],
                    MemoryTotal |-> src.memInfo.val.Total,
                    MemoryUsed |-> src.memInfo.val.Used,
                    MemoryPercent |-> src.memInfo.val.UsedPercent,
                    MemoryFree |-> src.memInfo.val.Free]]

CPUInfoResults ==
    { [err |-> TRUE, list |-> <<>>] }
    \cup { [err |-> FALSE, list |-> [i \in 1..n |-> [ModelName |-> "cpu"]]] : n \in {0, 2, 4} }

CPUPercentResults ==
    { [err |-> TRUE, list |-> <<>>], [err |-> FALSE, list |-> <<>>] }
    \cup { [err |-> FALSE, list |-> <<u>>] : u \in {10, 95} }

ZeroMemory == [Total |-> U64(0, 0), Used |-> U64(0, 0), UsedPercent |-> 0, Free |-> U64(0, 0)]

VirtualMemoryResults ==
    { [err |-> TRUE, val |-> ZeroMemory],
      [err |-> FALSE, val |-> [Total |-> MB(1000), Used |-> MB(500), UsedPercent |-> 50,
                               Free |-> MB(500)]],
      [err |-> FALSE, val |-> [Total |-> MB(1000), Used |-> MB(950), UsedPercent |-> 95,
                               Free |-> MB(50)]] }

SysSources ==
    { [cpuInfo |-> i, cpuPercent |-> u, memInfo |-> m] :
      i \in CPUInfoResults, u \in CPUPercentResults, m \in VirtualMemoryResults }

(***************************************************************************)
(* SpecCollect: the two collections in the order InspectWithOptions makes  *)
(* them, for every set of failing attribute reads and every answer of the  *)
(* system's metrics source.                                                *)
(***************************************************************************)
InitCollect ==
    /\ procReads = NotCalled /\ procOutcome = NotCalled
    /\ sysSource = NotCalled /\ sysOutcome = NotCalled
    /\ ParseIdle /\ AnalyzerIdle /\ PortIdle /\ CmdIdle /\ RulesIdle /\ CallIdle /\ AnimIdle

CollectProcessInfo ==
    /\ ~procOutcome.called
    /\ \E failing \in SUBSET ReadNames :
         /\ procReads' = [called |-> TRUE, reads |-> ProcReads(failing)]
         /\ procOutcome' = [called |-> TRUE, out |-> collectProcessInfo(1, ProcReads(failing))]
    /\ UNCHANGED <<sysSource, sysOutcome>>
    /\ UNCHANGED <<parseVars, analyzerVars, portVars, cmdVars, ruleVars, callVars, animVars>>

CollectSystemInfo ==
    /\ procOutcome.called /\ ~procOutcome.out.panic
    /\ ~sysOutcome.called
    /\ \E src \in SysSources :
         /\ sysSource' = [called |-> TRUE, src |-> src]
         /\ sysOutcome' = [called |-> TRUE, out |-> collectSystemInfo(src)]
    /\ UNCHANGED <<procReads, procOutcome>>
    /\ UNCHANGED <<parseVars, analyzerVars, portVars, cmdVars, ruleVars, callVars, animVars>>

NextCollect == CollectProcessInfo \/ CollectSystemInfo

SpecCollect == InitCollect /\ [][NextCollect]_vars

\* The snapshot's field(s) that the read `k` fills, as the read's value
\* `val` fills them.
FieldsFrom(k, val) ==
    CASE k = "MemoryInfo" -> <<val.RSS, val.VMS>>
      [] k = "CreateTime" -> <<val \div 1000>>
      [] k \in {"Connections", "OpenFiles", "Children"} -> <<Len(val)>>
      [] OTHER -> <<val>>

FieldsOf(info, k) ==
    CASE k = "Name" -> <<info.Name>>
      [] k = "Exe" -> <<info.Executable>>
      [] k = "Cmdline" -> <<info.CommandLine>>
      [] k = "Cwd" -> <<info.WorkingDir>>
      [] k = "Status" -> <<info.Status>>
      [] k = "CPUPercent" -> <<info.CPUPercent>>
      [] k = "MemoryInfo" -> <<info.MemoryRSS, info.MemoryVMS>>
      [] k = "MemoryPercent" -> <<info.MemoryPercent>>
      [] k = "CreateTime" -> <<info.CreateTime>>
      [] k = "Connections" -> <<info.Connections>>
      [] k = "OpenFiles" -> <<info.OpenFiles>>
      [] OTHER -> <<info.Children>>

ZeroFields(k) ==
    CASE k \in {"Name", "Exe", "Cmdline", "Cwd", "Status"} -> <<"">>
      [] k = "MemoryInfo" -> <<U64(0, 0), U64(0, 0)>>
      [] OTHER -> <<0>>

\* C7: whichever attribute reads fail, collectProcessInfo returns a snapshot
\* without error or panic; the field(s) of a read that failed hold the zero
\* value and every other field holds the value its own read returned.  (The
\* creation time is built with time.Unix from the read's milliseconds: of
\* that field the formula asks only the value of a read that succeeded.)
C7_FailedReadGivesZeroField ==
    procOutcome.called =>
        /\ ~procOutcome.out.panic
        /\ procOutcome.out.err = "nil"
        /\ \A k \in ReadNames :
             IF procReads.reads[k].err
             THEN k # "CreateTime" => FieldsOf(procOutcome.out.info, k) = ZeroFields(k)
             ELSE FieldsOf(procOutcome.out.info, k) = FieldsFrom(k, OkValue(k))

\* C9: whatever the metrics source answers, collectSystemInfo returns a
\* populated system snapshot or a collection error, and does not crash: so
\* too when cpu.Info or cpu.Percent succeeds with an empty list.
C9_SnapshotOrCollectionError ==
    sysOutcome.called =>
        /\ ~sysOutcome.out.panic
        /\ \/ sysOutcome.out.err # "nil"
           \/ /\ sysOutcome.out.info.CPUCores = Len(sysSource.src.cpuInfo.list)
              /\ sysOutcome.out.info.CPUUsage = sysSource.src.cpuPercent.list[1]
              /\ sysOutcome.out.info.MemoryTotal = sysSource.src.memInfo.val.Total

(***************************************************************************)
(* Inspector.InspectWithOptions, InspectByPort and the command's Run       *)
(*                                                                         *)
(* A call's outcome is [err, panic, out, log, did, a, lookupFailed,        *)
(* announced, inspected]: the error returned, whether the call panicked,   *)
(* what it wrote to the standard output and (through the log package) to   *)
(* the error stream, the steps it made, the analyzer it leaves, whether    *)
(* process.NewProcess failed for the inspected identifier, and in          *)
(* InspectByPort the identifier announced and the one inspected (-1: none).*)
(* An entry of the standard output is [kind, warnings].  `in` holds what   *)
(* the environment answers during the call.                                *)
(***************************************************************************)
Out(kind) == [kind |-> kind, warnings |-> NilSlice, shown |-> <<>>]

\* strings.HasPrefix(item, "(rightwards arrow)")
\* Formatter.formatStatus: the label the report shows for a status (the
\* styling left out)
formatStatus(status) ==
    LET lower == ToLower(status) IN
    CASE lower \in {"r", "running"} -> "Running"
      [] lower \in {"s", "sleeping"} -> "Sleeping"
      [] lower \in {"z", "zombie"} -> "Zombie"
      [] lower \in {"t", "stopped"} -> "Stopped"
      [] OTHER -> status

IsRecommendation(item) == HasPrefix(item, ArrowGlyph)

\* strings.HasPrefix(item, "(warning sign)"), or an item without glyph
IsActualWarning(item) == ~IsRecommendation(item)

\* "  %d. " + item, for each item of the list
Numbered(items) == [ n \in 1..Len(items) |-> <<ToString(n), ". ">> \o items[n] ]

\* Formatter.FormatWarnings: the lines it renders.  The warnings come first
\* under their header, then the recommendations under theirs.
FormatWarnings(warnings) ==
    IF Len(warnings.elems) = 0 THEN << <<"All systems healthy">> >>
    ELSE LET actualWarnings == SelectSeq(warnings.elems, IsActualWarning)
             recommendations == SelectSeq(warnings.elems, IsRecommendation)
         IN  (IF Len(actualWarnings) > 0
              THEN << <<" WARNINGS ">> >> \o Numbered(actualWarnings) ELSE <<>>)
             \o (IF Len(recommendations) > 0
                 THEN << <<" RECOMMENDATIONS ">> >> \o Numbered(recommendations) ELSE <<>>)

\* Inspector.outputJSON: the document's warnings field as json.MarshalIndent
\* writes it: null for a nil slice, else the array of the strings in order.
outputJSON(warnings) == [isNull |-> warnings.isNil, array |-> warnings.elems]

\* What reaches the standard output with a finding list: `warnings` is the
\* list handed over, `shown` the lines or strings written from it.
OutWarnings(kind, warnings) ==
    [kind |-> kind, warnings |-> warnings,
     shown |-> IF kind = "json" THEN outputJSON(warnings) ELSE FormatWarnings(warnings)]

Outcome(err, panic, out, log, did) ==
    [err |-> err, panic |-> panic, out |-> out, log |-> log, did |-> did]

\* InspectWithOptions from the collection of the process data on
Inspected(an, pid, jsonOutput, in) ==
    LET p == collectProcessInfo(pid, in.reads) IN
    IF p.panic THEN Outcome("nil", TRUE, <<>>, <<>>, {"collectProcessInfo"})
    ELSE
    LET s == collectSystemInfo(in.sys) IN
    IF s.panic THEN Outcome("nil", TRUE, <<>>, <<>>, {"collectProcessInfo", "collectSystemInfo"})
    ELSE IF s.err # "nil"
    THEN Outcome("failed to collect system info", FALSE, <<>>, <<>>,
                 {"collectProcessInfo", "collectSystemInfo"})
    ELSE
    LET d == [Process |-> p.info, System |-> s.info]
        \* cpu.Percent has sampled for one second since the snapshot's reads
        w == AnalyzeAndWarn(an, d, in.backend, StartNow + 1)
        did == {"collectProcessInfo", "collectSystemInfo", "AnalyzeAndWarn"}
    IN
    IF w.panic THEN Outcome("nil", TRUE, <<>>, w.log, did)
    ELSE IF jsonOutput
    THEN Outcome("nil", FALSE, <<OutWarnings("json", w.ret)>>, w.log, did \cup {"outputJSON"})
    ELSE Outcome("nil", FALSE, <<Out("report"), OutWarnings("warnings", w.ret)>>, w.log,
                 did \cup {"FormatReport"})

\* The banner before the body, and the deferred calls after it (they run on
\* a return and on a panic): the animation is stopped and its line cleared,
\* then the analyzer is closed.
WithDeferred(an, jsonOutput, in, body, lookupFailed) ==
    [err |-> body.err, panic |-> body.panic, log |-> body.log, did |-> body.did,
     out |-> (IF jsonOutput THEN <<>> ELSE <<Out("banner")>>)
             \o body.out
             \o (IF jsonOutput THEN <<>> ELSE <<Out("clear animation")>>)
             \o (IF in.closeErr /\ an.client # "nil"
                 THEN <<Out("Warning: Failed to close AI client")>> ELSE <<>>),
     a |-> Close(an),
     lookupFailed |-> lookupFailed, announced |-> -1, inspected |-> -1]

\* An InspectWithOptions that goes on after a failed process.NewProcess.
InspectWithOptionsIgnoringLookup(an, pid, jsonOutput, in) ==
    WithDeferred(an, jsonOutput, in, Inspected(an, pid, jsonOutput, in), pid \notin in.exists)

InspectWithOptions(an, pid, jsonOutput, in) ==
    IF pid \notin in.exists
    THEN WithDeferred(an, jsonOutput, in,
                      Outcome("failed to get process", FALSE, <<>>, <<>>, {}), TRUE)
    ELSE WithDeferred(an, jsonOutput, in, Inspected(an, pid, jsonOutput, in), FALSE)

ResolutionFailed(an, out) ==
    [err |-> "failed to find process on port", panic |-> FALSE, log |-> <<>>, did |-> {},
     out |-> out, a |-> an, lookupFailed |-> FALSE, announced |-> -1, inspected |-> -1]

InspectByPort(an, p, jsonOutput, in) ==
    LET first == findProcessByPort(p, in.conns1, in.exists1)
        second == findProcessByPort(p, in.conns2, in.exists2)
    IN
    IF jsonOutput
    THEN IF first.err # "nil"
         THEN ResolutionFailed(an, <<>>)
         ELSE [InspectWithOptions(an, first.pid, jsonOutput, in) EXCEPT !.inspected = first.pid]
    ELSE IF first.err # "nil"
         THEN ResolutionFailed(an, <<Out("banner"), Out("clear animation")>>)
         \* pid, _ := i.findProcessByPort(port): a second resolution
         ELSE LET r == InspectWithOptions(an, second.pid, jsonOutput, in) IN
              [r EXCEPT !.out = <<Out("banner"), Out("clear animation"), Out("Found process")>> \o @,
                        !.announced = first.pid,
                        !.inspected = second.pid]

MsgInvalidPID == "Invalid PID"
MsgErrorInspecting == "Error inspecting process"
MsgPanic == "panic"

(***************************************************************************)
(* Spec: one run of the command, from rootCmd.Run to the exit              *)
(***************************************************************************)
Args ==
    { [mode |-> "pid", jsonOutput |-> j, pidParses |-> ok, pid |-> 1, port |-> Int64(0, 0)] :
      j \in BOOLEAN, ok \in BOOLEAN }
    \cup { [mode |-> "port", jsonOutput |-> j, pidParses |-> TRUE, pid |-> 0, port |-> pt] :
           j \in BOOLEAN, pt \in {Int64(0, 80), Int64(1, 80)} }

CmdTables ==
    { [err |-> TRUE, list |-> <<>>],
      [err |-> FALSE, list |-> <<>>],
      [err |-> FALSE, list |-> << [Laddr |-> [Port |-> 80], Status |-> "LISTEN", Pid |-> 1] >>] }

CmdBackends ==
    { [err |-> "transport", Candidates |-> <<>>],
      [err |-> "nil", Candidates |-> << [Content |-> NoContent] >>],
      [err |-> "nil", Candidates |->
          << [Content |-> [isNil |-> FALSE, Parts |-> << <<WarningPrefix, SP, Other>> >>]] >>],
      [err |-> "nil", Candidates |->
          << [Content |-> [isNil |-> FALSE, Parts |-> << <<HealthyPrefix, SP, Other>> >>]] >>],
      [err |-> "nil", Candidates |->
          << [Content |-> [isNil |-> FALSE,
                           Parts |-> << <<RecommendPrefix, SP, Other, NL, WarningPrefix, SP, Other>> >>]] >>] }

QuietSystem ==
    [cpuInfo |-> [err |-> FALSE, list |-> [i \in 1..4 |-> [ModelName |-> "cpu"]]],
     cpuPercent |-> [err |-> FALSE, list |-> <<10>>],
     memInfo |-> [err |-> FALSE, val |-> [Total |-> MB(1000), Used |-> MB(500),
                                          UsedPercent |-> 50, Free |-> MB(500)]]]

CmdSysSources ==
    { src \in SysSources :
        /\ src.cpuPercent = [err |-> FALSE, list |-> <<95>>]
        /\ Len(src.cpuInfo.list) # 2
        /\ src.memInfo.val.UsedPercent # 95 }
    \cup {QuietSystem}

\* what the environment answers during InspectWithOptions
InspectInputs ==
    { [exists |-> ex, reads |-> r, sys |-> src, backend |-> b, closeErr |-> ce] :
      ex \in SUBSET {1}, r \in {ProcReads({}), ProcReads({"MemoryInfo"}), QuietReads},
      src \in CmdSysSources, b \in CmdBackends, ce \in BOOLEAN }

\* and during the two resolutions of InspectByPort before it
PortInputs ==
    { [conns1 |-> c1, exists1 |-> e1, conns2 |-> c2, exists2 |-> e2,
       exists |-> in.exists, reads |-> in.reads, sys |-> in.sys, backend |-> in.backend,
       closeErr |-> in.closeErr] :
      c1 \in CmdTables, e1 \in SUBSET {1}, c2 \in CmdTables, e2 \in SUBSET {1},
      in \in InspectInputs }

NoInspector ==
    [constructed |-> FALSE, analyzer |-> [aiEnabled |-> FALSE, client |-> "nil"],
     called |-> FALSE, result |-> NotCalled]

Init ==
    /\ pc = "start"
    /\ args \in Args
    /\ insp = NoInspector
    /\ stdout = <<>>
    /\ stderr = <<>>
    /\ exitCode = -1
    /\ ParseIdle /\ AnalyzerIdle /\ PortIdle /\ CollectIdle /\ RulesIdle /\ CallIdle /\ AnimIdle

\* inspector.New(): analyzer.New reads the environment and logs its notice
CmdNew ==
    /\ pc = "start"
    /\ \E key \in {"", "key"}, clientErr \in BOOLEAN :
         /\ insp' = [insp EXCEPT !.constructed = TRUE, !.analyzer = New(key, clientErr).a]
         /\ stderr' = stderr \o New(key, clientErr).log
    /\ pc' = "constructed"
    /\ UNCHANGED <<args, stdout, exitCode>>
    /\ UNCHANGED <<parseVars, analyzerVars, portVars, collectVars, ruleVars, callVars, animVars>>

\* strconv.Atoi(args[0]) fails
CmdInvalidPID ==
    /\ pc = "constructed" /\ args.mode = "pid" /\ ~args.pidParses
    /\ stderr' = Append(stderr, MsgInvalidPID)
    /\ exitCode' = 1
    /\ pc' = "exited"
    /\ UNCHANGED <<args, insp, stdout>>
    /\ UNCHANGED <<parseVars, analyzerVars, portVars, collectVars, ruleVars, callVars, animVars>>

\* The end of Run after the inspection `r`: a panic ends the process with
\* status 2 and the panic's message, an error with status 1 and one message.
Finish(r) ==
    /\ insp' = [insp EXCEPT !.analyzer = r.a, !.called = TRUE, !.result = r]
    /\ stdout' = stdout \o r.out
    /\ stderr' = stderr \o r.log
                  \o (IF r.panic THEN <<MsgPanic>>
                      ELSE IF r.err # "nil" THEN <<MsgErrorInspecting>> ELSE <<>>)
    /\ exitCode' = IF r.panic THEN 2 ELSE IF r.err # "nil" THEN 1 ELSE 0
    /\ pc' = "exited"
    /\ UNCHANGED args
    /\ UNCHANGED <<parseVars, analyzerVars, portVars, collectVars, ruleVars, callVars, animVars>>

CmdInspectByPID ==
    /\ pc = "constructed" /\ args.mode = "pid" /\ args.pidParses
    /\ \E in \in InspectInputs :
         Finish(InspectWithOptions(insp.analyzer, args.pid, args.jsonOutput, in))

CmdInspectByPort ==
    /\ pc = "constructed" /\ args.mode = "port"
    /\ \E in \in PortInputs :
         Finish(InspectByPort(insp.analyzer, args.port, args.jsonOutput, in))

Next == CmdNew \/ CmdInvalidPID \/ CmdInspectByPID \/ CmdInspectByPort

Spec == Init /\ [][Next]_vars

\* The steps InspectWithOptions makes after the lookup of the process.
AfterLookup == {"collectProcessInfo", "collectSystemInfo", "AnalyzeAndWarn", "outputJSON", "FormatReport"}

WroteReportOrJSON ==
    \E i \in DOMAIN stdout : stdout[i].kind \in {"report", "warnings", "json"}

\* InspectWithOptions ran and process.NewProcess failed for its identifier.
LookupFailed == pc = "exited" /\ insp.called /\ insp.result.lookupFailed

\* The inspection returned without error.
InspectionSucceeded ==
    pc = "exited" /\ insp.called /\ ~insp.result.panic /\ insp.result.err = "nil"

\* C8 as stated: when the lookup of the process fails, InspectWithOptions
\* returns an error without collecting, analysing or writing a report or a
\* JSON document, and the command exits non-zero after one message on the
\* error stream; when the inspection succeeds the command exits zero.
C8_AsStated ==
    /\ LookupFailed =>
         /\ insp.result.err # "nil"
         /\ insp.result.did \cap AfterLookup = {}
         /\ ~WroteReportOrJSON
         /\ exitCode # 0
         /\ Len(stderr) = 1
    /\ InspectionSucceeded => exitCode = 0

NewNotices == {"Warning: GEMINI_API_KEY not found", "Warning: Failed to initialize Gemini client"}

\* C8, amended: as C8_AsStated, the error stream holding exactly one message
\* of the command, "Error inspecting process", last, and before it nothing
\* but the notice analyzer.New logs when it finds no API key or no client.
C8_LookupFailureIsFatal ==
    /\ LookupFailed =>
         /\ insp.result.err # "nil"
         /\ insp.result.did \cap AfterLookup = {}
         /\ ~WroteReportOrJSON
         /\ exitCode # 0
         /\ Len(stderr) \in {1, 2}
         /\ stderr[Len(stderr)] = MsgErrorInspecting
         /\ \A i \in 1..(Len(stderr) - 1) : stderr[i] \in NewNotices
    /\ InspectionSucceeded => exitCode = 0

\* A text-mode run without API key whose process lookup failed.
C8_Witness ==
    /\ LookupFailed
    /\ ~args.jsonOutput
    /\ exitCode = 1
    /\ stderr = <<"Warning: GEMINI_API_KEY not found", MsgErrorInspecting>>
    /\ stdout = <<Out("banner"), Out("clear animation")>>

\* The finding lists that reached the standard output, as handed over.
HandedOver == { k \in DOMAIN stdout : stdout[k].kind \in {"json", "warnings"} }

\* Every Warning of the list stands before every Recommendation.
WarningsFirst(list) ==
    \A i, j \in DOMAIN list : (IsActualWarning(list[i]) /\ IsRecommendation(list[j])) => i < j

\* The findings written, in the order written: the strings of the JSON
\* array, or the numbered items of the report without their number.
Received(entry) ==
    IF entry.kind = "json" THEN entry.shown.array
    ELSE LET items == SelectSeq(entry.shown, LAMBDA l : Len(l) > 1)
         IN  [ n \in 1..Len(items) |-> SubSeq(items[n], 3, Len(items[n])) ]

\* C12: in every finding list AnalyzeAndWarn returns and the inspector hands
\* to the formatter or to the JSON document, every Warning precedes every
\* Recommendation, and the consumer receives the findings in the list's
\* order.
C12_WarningsBeforeRecommendations ==
    \A k \in HandedOver :
        /\ WarningsFirst(stdout[k].warnings.elems)
        /\ Received(stdout[k]) = stdout[k].warnings.elems

\* C20: the identifier InspectByPort hands to InspectWithOptions passed the
\* port resolution (so it is positive) and, in text mode, is the identifier
\* announced as found, whatever the connection table and the live processes
\* are at each step of the call.
C20_InspectsResolvedProcess ==
    (pc = "exited" /\ insp.called /\ args.mode = "port" /\ insp.result.inspected # -1)
        => /\ insp.result.inspected > 0
           /\ ~args.jsonOutput => insp.result.inspected = insp.result.announced

\* C16: every string of the warnings array of a JSON document the command
\* writes starts with the glyph of a finding kind, the warning sign or the
\* arrow, whichever strategy produced the findings.
C16_JSONStringsStartWithGlyph ==
    \A k \in DOMAIN stdout :
        stdout[k].kind = "json" =>
            \A i \in DOMAIN stdout[k].shown.array :
                \/ HasPrefix(stdout[k].shown.array[i], WarnGlyph)
                \/ HasPrefix(stdout[k].shown.array[i], ArrowGlyph)

(***************************************************************************)
(* SpecRules: analyzeWithRules on one snapshot.  The snapshots take, for   *)
(* every field a rule reads, the values on both sides of the rule's        *)
(* thresholds.                                                             *)
(***************************************************************************)
ProcessCPUValues == {50, 51, 80, 81}
SystemCPUValues == {60, 61, 75, 76, 90, 91}
CoreValues == {2, 3}
ProcessMemoryValues == {10, 11}
SystemMemoryValues == {80, 81, 90, 91}
\* process.Status gives the state's letter; the names are what the rules test
StatusValues == {"S", "Z", "T", "zombie", "stopped"}
\* seconds between the process's creation and the call
AgeValues == {59, 60}
OpenFilesValues == {1000, 1001}
ConnectionsValues == {100, 101}
ChildrenValues == {50, 51}
\* <<free, total>>
FreeMemoryValues == { <<MB(99), MB(1000)>>, <<MB(100), MB(1000)>>, <<U64(0, 0), U64(0, 0)>> }
\* <<resident, virtual>>
ProcessMemoryPairs ==
    { <<MB(10), MB(20)>>, <<MB(10), MB(30)>>, <<MB(10), MB(35)>>, <<U64(2, 0), U64(3, 0)>> }

RuleSnapshot(pc1, sc, co, pm, sm, st, age, f, c, ch, fr, mem) ==
    [Process |-> [BaseProcess EXCEPT !.CPUPercent = pc1, !.MemoryPercent = pm,
                                     !.MemoryRSS = mem[1], !.MemoryVMS = mem[2],
                                     !.Status = st, !.CreateTime = StartNow - age,
                                     !.OpenFiles = f, !.Connections = c, !.Children = ch],
     System |-> [BaseSystem EXCEPT !.CPUUsage = sc, !.CPUCores = co, !.MemoryPercent = sm,
                                   !.MemoryFree = fr[1], !.MemoryTotal = fr[2]]]

InitRules ==
    /\ \E pc1 \in ProcessCPUValues, sc \in SystemCPUValues, co \in CoreValues,
          pm \in ProcessMemoryValues, sm \in SystemMemoryValues, st \in StatusValues,
          age \in AgeValues, f \in OpenFilesValues, c \in ConnectionsValues,
          ch \in ChildrenValues, fr \in FreeMemoryValues, mem \in ProcessMemoryPairs :
            ruleData = RuleSnapshot(pc1, sc, co, pm, sm, st, age, f, c, ch, fr, mem)
    /\ ruleNow = StartNow
    /\ ruleOut = NotCalled
    /\ ParseIdle /\ AnalyzerIdle /\ PortIdle /\ CollectIdle /\ CmdIdle /\ CallIdle /\ AnimIdle

AnalyzeWithRules ==
    /\ ~ruleOut.called
    /\ ruleOut' = [called |-> TRUE, ret |-> analyzeWithRules(ruleData, ruleNow)]
    /\ UNCHANGED <<ruleData, ruleNow>>
    /\ UNCHANGED <<parseVars, analyzerVars, portVars, collectVars, cmdVars, callVars, animVars>>

NextRules == AnalyzeWithRules

SpecRules == InitRules /\ [][NextRules]_vars

\* The findings of each rule group, by the text they begin with.
CPUFindings ==
    {"High CPU usage detected", "Moderate CPU usage", "Critical system CPU load", "High system CPU load"}
MemoryFindings ==
    {"High memory usage: Process", "Potential memory leak", "Critical memory pressure",
     "High memory usage: System"}
ProcessFindings ==
    {"Recently started process", "Zombie process detected", "Process is currently stopped",
     "High file descriptor usage", "High network connections", "Many child processes"}
SystemFindings == {"Limited CPU resources", "Low free memory"}

\* 1: CPU, 2: memory, 3: process behaviour, 4: system health
GroupOf(finding) ==
    CASE finding[1] \in CPUFindings -> 1
      [] finding[1] \in MemoryFindings -> 2
      [] finding[1] \in ProcessFindings -> 3
      [] finding[1] \in SystemFindings -> 4

\* The positions of the list at which a finding of the rule stands.
PositionsOf(list, rule) == { i \in DOMAIN list : list[i][1] = rule }

\* C13: the rule-based list holds the findings of the CPU group, then those
\* of the memory group, then process behaviour, then system health: no
\* finding of a later group precedes one of an earlier group, and for a
\* snapshot with system CPU above 90 the critical-system-CPU finding is there
\* and stands before every finding of the three later groups.
C13_GroupOrder ==
    ruleOut.called =>
        LET ret == ruleOut.ret.elems IN
        /\ \A i, j \in DOMAIN ret : i < j => GroupOf(ret[i]) <= GroupOf(ret[j])
        /\ ruleData.System.CPUUsage > 90 =>
             \E i \in PositionsOf(ret, "Critical system CPU load") :
                 \A j \in DOMAIN ret : GroupOf(ret[j]) > 1 => i < j

\* A snapshot with system CPU above 90 that has findings of all four groups.
C13_Witness ==
    /\ ruleOut.called
    /\ ruleData.System.CPUUsage > 90
    /\ { GroupOf(ruleOut.ret.elems[i]) : i \in DOMAIN ruleOut.ret.elems } = {1, 2, 3, 4}
    /\ PositionsOf(ruleOut.ret.elems, "Critical system CPU load") = {2}

\* The rules of the threshold table but the virtual/RSS divergence rule, by
\* the text their finding begins with.
ThresholdRules ==
    (CPUFindings \cup MemoryFindings \cup ProcessFindings \cup SystemFindings)
        \ {"Potential memory leak"}

\* The process is a zombie, or stopped: the status holds the letter the
\* metrics source gives for the state, or the state's name, in any case.
StatusIsZombie(status) == ToLower(status) \in {"z", "zombie"}
StatusIsStopped(status) == ToLower(status) \in {"t", "stopped"}

\* free / total below 10%, of two byte counts below 2^62; undefined, and not
\* below, for a total of zero.
BelowTenth(free, total) == total.lo > 0 /\ 10 * free.lo < total.lo

\* The condition of the rule on the snapshot, the process's age taken at
\* `clock`.
RuleCondition(rule, d, clock) ==
    CASE rule = "High CPU usage detected" -> d.Process.CPUPercent > 80
      [] rule = "Moderate CPU usage" -> 50 < d.Process.CPUPercent /\ d.Process.CPUPercent <= 80
      [] rule = "Critical system CPU load" -> d.System.CPUUsage > 90
      [] rule = "High system CPU load" -> 75 < d.System.CPUUsage /\ d.System.CPUUsage <= 90
      [] rule = "High memory usage: Process" -> d.Process.MemoryPercent > 10
      [] rule = "Critical memory pressure" -> d.System.MemoryPercent > 90
      [] rule = "High memory usage: System" ->
            80 < d.System.MemoryPercent /\ d.System.MemoryPercent <= 90
      [] rule = "Recently started process" -> clock - d.Process.CreateTime < 60
      [] rule = "Zombie process detected" -> StatusIsZombie(d.Process.Status)
      [] rule = "Process is currently stopped" -> StatusIsStopped(d.Process.Status)
      [] rule = "High file descriptor usage" -> d.Process.OpenFiles > 1000
      [] rule = "High network connections" -> d.Process.Connections > 100
      [] rule = "Many child processes" -> d.Process.Children > 50
      [] rule = "Limited CPU resources" -> d.System.CPUCores <= 2 /\ d.System.CPUUsage > 60
      [] rule = "Low free memory" -> BelowTenth(d.System.MemoryFree, d.System.MemoryTotal)

\* C14: for every snapshot the rule-based strategy emits the finding of a
\* rule of the threshold table once if the rule's condition holds on the
\* snapshot and not at all if it does not, whatever the other rules do.
C14_RuleIffCondition ==
    ruleOut.called =>
        \A rule \in ThresholdRules :
            Cardinality(PositionsOf(ruleOut.ret.elems, rule))
                = IF RuleCondition(rule, ruleData, ruleNow) THEN 1 ELSE 0

\* virtual > 3 x resident on the numbers: the product hi * 2^62 * 3 is not
\* reduced (3 * lo stays below 2^62, no carry).
ExceedsThreeTimes(virtual, resident) ==
    \/ virtual.hi > 3 * resident.hi
    \/ (virtual.hi = 3 * resident.hi /\ virtual.lo > 3 * resident.lo)

\* C15: the virtual/RSS divergence finding is emitted if and only if the
\* virtual memory is greater than three times the resident memory, the
\* product being the mathematical one, for every pair of 64-bit byte counts.
C15_DivergenceIffAboveThreeTimes ==
    ruleOut.called =>
        (PositionsOf(ruleOut.ret.elems, "Potential memory leak") # {}
            <=> ExceedsThreeTimes(ruleData.Process.MemoryVMS, ruleData.Process.MemoryRSS))

\* The findings the threshold table marks as lower or informational, and
\* those of full warning severity in the same groups.
LowerSeverity == {"Moderate CPU usage", "Recently started process"}
FullSeverity ==
    {"Critical system CPU load", "High system CPU load", "Zombie process detected",
     "Process is currently stopped", "High file descriptor usage", "High network connections",
     "Many child processes"}

\* C18: within a rule group the findings stand most-severe-first: a lower
\* or informational finding (moderate process CPU, recently started) never
\* stands before a finding of full warning severity of its group.
C18_MostSevereFirst ==
    ruleOut.called =>
        LET ret == ruleOut.ret.elems IN
        \A i, j \in DOMAIN ret :
            (/\ ret[i][1] \in LowerSeverity
             /\ ret[j][1] \in FullSeverity
             /\ GroupOf(ret[i]) = GroupOf(ret[j])) => j < i

(***************************************************************************)
(* SpecCall: one AnalyzeAndWarn call in steps.  analyzeWithAI creates a    *)
(* context with a deadline and defers its cancel, then waits in            *)
(* model.GenerateContent until the backend answers or the deadline         *)
(* passes; what it does with the answer is analyzeWithAI above.  `ctx` is  *)
(* the context: "none" before context.WithTimeout, then "live", "expired"  *)
(* once the deadline has passed, "released" after cancel.  `elapsed` is    *)
(* the time the call has waited, in seconds.                               *)
(***************************************************************************)
\* context.WithTimeout(context.Background(), 30*time.Second)
Timeout == 30
\* seconds between two looks at the waiting call
WaitStep == 10

DeadlineExceeded == [err |-> "context deadline exceeded", Candidates |-> <<>>]

\* what the backend can answer before the deadline
CallAnswers == { [err |-> "transport", Candidates |-> <<>>] } \cup BackendResponses

InitCall ==
    /\ callPc = "start"
    /\ callAI \in BOOLEAN
    /\ callData \in AnalyzerSnapshots
    /\ ctx = "none"
    /\ elapsed = 0
    /\ answer = NotCalled
    /\ callOut = NotCalled
    /\ ParseIdle /\ AnalyzerIdle /\ PortIdle /\ CollectIdle /\ CmdIdle /\ RulesIdle /\ AnimIdle

\* AnalyzeAndWarn of a RuleOnly analyzer
CallRuleOnly ==
    /\ callPc = "start" /\ ~callAI
    /\ callOut' = Returned(analyzeWithRules(callData, StartNow), "rules", FALSE, <<>>)
    /\ callPc' = "returned"
    /\ UNCHANGED <<callAI, callData, ctx, elapsed, answer>>
    /\ UNCHANGED <<parseVars, analyzerVars, portVars, collectVars, cmdVars, ruleVars, animVars>>

\* analyzeWithAI up to the call of model.GenerateContent(ctx, ...)
CallGenerateContent ==
    /\ callPc = "start" /\ callAI
    /\ ctx' = "live"
    /\ callPc' = "waiting"
    /\ UNCHANGED <<callAI, callData, elapsed, answer, callOut>>
    /\ UNCHANGED <<parseVars, analyzerVars, portVars, collectVars, cmdVars, ruleVars, animVars>>

\* time passes without an answer
CallWait ==
    /\ callPc = "waiting" /\ elapsed < Timeout
    /\ elapsed' = elapsed + WaitStep
    /\ UNCHANGED <<callPc, callAI, callData, ctx, answer, callOut>>
    /\ UNCHANGED <<parseVars, analyzerVars, portVars, collectVars, cmdVars, ruleVars, animVars>>

\* the backend answers before the deadline
CallBackendAnswers ==
    /\ callPc = "waiting" /\ elapsed < Timeout
    /\ \E b \in CallAnswers : answer' = b
    /\ callPc' = "answered"
    /\ UNCHANGED <<callAI, callData, ctx, elapsed, callOut>>
    /\ UNCHANGED <<parseVars, analyzerVars, portVars, collectVars, cmdVars, ruleVars, animVars>>

\* the deadline passes: GenerateContent returns the context's error
CallDeadline ==
    /\ callPc = "waiting" /\ elapsed >= Timeout
    /\ ctx' = "expired"
    /\ answer' = DeadlineExceeded
    /\ callPc' = "answered"
    /\ UNCHANGED <<callAI, callData, elapsed, callOut>>
    /\ UNCHANGED <<parseVars, analyzerVars, portVars, collectVars, cmdVars, ruleVars, animVars>>

\* analyzeWithAI from the answer on; the deferred cancel runs when the
\* function returns and when it panics.
CallFinish ==
    /\ callPc = "answered"
    /\ LET out == analyzeWithAI(callData, answer, StartNow + elapsed) IN
         /\ callOut' = out
         /\ callPc' = IF out.panic THEN "panicked" ELSE "returned"
    /\ ctx' = "released"
    /\ UNCHANGED <<callAI, callData, elapsed, answer>>
    /\ UNCHANGED <<parseVars, analyzerVars, portVars, collectVars, cmdVars, ruleVars, animVars>>

NextCall ==
    CallRuleOnly \/ CallGenerateContent \/ CallWait \/ CallBackendAnswers \/ CallDeadline
        \/ CallFinish

\* The goroutine of the call runs, time passes and the context's timer
\* fires; the backend need not answer.
SpecCall ==
    /\ InitCall /\ [][NextCall]_vars
    /\ WF_vars(CallRuleOnly) /\ WF_vars(CallGenerateContent) /\ WF_vars(CallWait)
    /\ WF_vars(CallDeadline) /\ WF_vars(CallFinish)

\* C17: the backend call runs under a deadline created for it, so that
\* every AnalyzeAndWarn call eventually returns, with the context released:
\* a call whose backend has not answered when the deadline passes returns
\* the rule-based list.
C17_EventuallyReturns ==
    /\ [](callPc \in {"waiting", "answered"} => ctx \in {"live", "expired"})
    /\ [](callPc = "returned" /\ answer = DeadlineExceeded
            => callOut.ret = analyzeWithRules(callData, StartNow + elapsed))
    /\ (callPc = "start") ~> (callPc = "returned" /\ ctx \in {"none", "released"})

\* The snapshot collectProcessInfo builds of a process whose status read
\* returns `status`.
SnapshotWithStatus(status) ==
    collectProcessInfo(1, [ProcReads({}) EXCEPT !["Status"].val = status]).info

\* C24: the rule-based analyzer and the formatter agree on the status:
\* whenever the formatter renders it as Zombie the rule-based list holds
\* the zombie finding, whenever it renders Stopped the list holds the
\* stopped finding; the snapshot builder stores the status unchanged.
C24_AnalyzerAgreesWithFormatter ==
    ruleOut.called =>
        LET status == ruleData.Process.Status IN
        /\ formatStatus(status) = "Zombie"
             => PositionsOf(ruleOut.ret.elems, "Zombie process detected") # {}
        /\ formatStatus(status) = "Stopped"
             => PositionsOf(ruleOut.ret.elems, "Process is currently stopped") # {}
        /\ SnapshotWithStatus(status).Status = status

\* The places of the standard output where a JSON document is.
JSONDocuments == { k \in DOMAIN stdout : stdout[k].kind = "json" }

MaxFrames == 2

\* The channels one run can make: InspectByPort's and InspectWithOptions'.
Chans == 1..2

NoChan ==
    [made |-> FALSE, closed |-> FALSE, sending |-> FALSE, received |-> 0,
     sentOnClosed |-> FALSE]

Outcomes == {"success", "process not found", "collection error", "panic"}

InitAnim ==
    /\ mainPc = "start"
    /\ runArgs \in [byPort : BOOLEAN, jsonOutput : BOOLEAN]
    /\ runErr = "none" /\ cur = 0
    /\ chans = [c \in Chans |-> NoChan]
    /\ animPc = [c \in Chans |-> "none"]
    /\ term = <<>> /\ frames = 0
    /\ ParseIdle /\ AnalyzerIdle /\ PortIdle /\ CollectIdle /\ CmdIdle /\ RulesIdle /\ CallIdle

\* display.ShowBanner(""); done := make(chan bool); go ShowProcessingAnimation
StartAnimation(next) ==
    /\ cur' = cur + 1
    /\ chans' = [chans EXCEPT ![cur + 1].made = TRUE]
    /\ animPc' = [animPc EXCEPT ![cur + 1] = "select"]
    /\ term' = Append(term, "banner")
    /\ mainPc' = next

\* done <- true: the sender waits on the unbuffered channel for a receiver
SendDone(next) ==
    /\ chans' = [chans EXCEPT ![cur].sending = TRUE,
                              ![cur].sentOnClosed = chans[cur].closed]
    /\ mainPc' = next

\* close(done), once the send has been taken
CloseDone(next) ==
    /\ ~chans[cur].sending
    /\ chans' = [chans EXCEPT ![cur].closed = TRUE]
    /\ mainPc' = next

InspectByPortBegin ==
    /\ mainPc = "start" /\ runArgs.byPort
    /\ IF runArgs.jsonOutput
         THEN mainPc' = "port resolve" /\ UNCHANGED <<cur, chans, animPc, term>>
         ELSE StartAnimation("port resolve")
    /\ UNCHANGED <<runArgs, runErr, frames>>
    /\ UNCHANGED <<parseVars, analyzerVars, portVars, collectVars, cmdVars, ruleVars, callVars>>

\* findProcessByPort, and in JSON mode the return that follows it
InspectByPortResolve ==
    /\ mainPc = "port resolve"
    /\ \E found \in BOOLEAN :
         /\ runErr' = IF found THEN "none" ELSE "resolution error"
         /\ mainPc' = IF ~runArgs.jsonOutput THEN "port send"
                      ELSE IF found THEN "inspect" ELSE "returned"
    /\ UNCHANGED <<runArgs, cur, chans, animPc, term, frames>>
    /\ UNCHANGED <<parseVars, analyzerVars, portVars, collectVars, cmdVars, ruleVars, callVars>>

InspectByPortSend ==
    /\ mainPc = "port send"
    /\ SendDone("port close")
    /\ UNCHANGED <<runArgs, runErr, cur, animPc, term, frames>>
    /\ UNCHANGED <<parseVars, analyzerVars, portVars, collectVars, cmdVars, ruleVars, callVars>>

InspectByPortClose ==
    /\ mainPc = "port close"
    /\ CloseDone("port sleep")
    /\ UNCHANGED <<runArgs, runErr, cur, animPc, term, frames>>
    /\ UNCHANGED <<parseVars, analyzerVars, portVars, collectVars, cmdVars, ruleVars, callVars>>

\* time.Sleep, then the error return or the "Found process" line and the
\* second resolution
InspectByPortFound ==
    /\ mainPc = "port sleep"
    /\ IF runErr = "resolution error"
         THEN mainPc' = "returned" /\ UNCHANGED term
         ELSE mainPc' = "inspect" /\ term' = Append(term, "found")
    /\ UNCHANGED <<runArgs, runErr, cur, chans, animPc, frames>>
    /\ UNCHANGED <<parseVars, analyzerVars, portVars, collectVars, cmdVars, ruleVars, callVars>>

InspectBegin ==
    /\ \/ mainPc = "start" /\ ~runArgs.byPort
       \/ mainPc = "inspect"
    /\ IF runArgs.jsonOutput
         THEN mainPc' = "body" /\ UNCHANGED <<cur, chans, animPc, term>>
         ELSE StartAnimation("body")
    /\ UNCHANGED <<runArgs, runErr, frames>>
    /\ UNCHANGED <<parseVars, analyzerVars, portVars, collectVars, cmdVars, ruleVars, callVars>>

\* process.NewProcess, collectProcessInfo, collectSystemInfo, AnalyzeAndWarn
InspectBody ==
    /\ mainPc = "body"
    /\ \E outcome \in Outcomes :
         /\ runErr' = outcome
         /\ mainPc' = IF outcome # "success" THEN "deferred"
                      ELSE IF runArgs.jsonOutput THEN "json" ELSE "report"
    /\ UNCHANGED <<runArgs, cur, chans, animPc, term, frames>>
    /\ UNCHANGED <<parseVars, analyzerVars, portVars, collectVars, cmdVars, ruleVars, callVars>>

\* fmt.Print(i.formatter.FormatReport(data))
InspectReport ==
    /\ mainPc = "report"
    /\ term' = Append(term, "report")
    /\ mainPc' = "warnings"
    /\ UNCHANGED <<runArgs, runErr, cur, chans, animPc, frames>>
    /\ UNCHANGED <<parseVars, analyzerVars, portVars, collectVars, cmdVars, ruleVars, callVars>>

\* fmt.Print(i.formatter.FormatWarnings(warnings)); return nil
InspectWarnings ==
    /\ mainPc = "warnings"
    /\ term' = Append(term, "warnings")
    /\ mainPc' = "deferred"
    /\ UNCHANGED <<runArgs, runErr, cur, chans, animPc, frames>>
    /\ UNCHANGED <<parseVars, analyzerVars, portVars, collectVars, cmdVars, ruleVars, callVars>>

\* return i.outputJSON(data, warnings)
InspectJSON ==
    /\ mainPc = "json"
    /\ term' = Append(term, "json")
    /\ mainPc' = "deferred"
    /\ UNCHANGED <<runArgs, runErr, cur, chans, animPc, frames>>
    /\ UNCHANGED <<parseVars, analyzerVars, portVars, collectVars, cmdVars, ruleVars, callVars>>

\* The function is left, by a return or by a panic: the deferred function
\* of text mode starts with done <- true.
InspectDeferredSend ==
    /\ mainPc = "deferred" /\ ~runArgs.jsonOutput
    /\ SendDone("deferred close")
    /\ UNCHANGED <<runArgs, runErr, cur, animPc, term, frames>>
    /\ UNCHANGED <<parseVars, analyzerVars, portVars, collectVars, cmdVars, ruleVars, callVars>>

InspectDeferredClose ==
    /\ mainPc = "deferred close"
    /\ CloseDone("deferred sleep")
    /\ UNCHANGED <<runArgs, runErr, cur, animPc, term, frames>>
    /\ UNCHANGED <<parseVars, analyzerVars, portVars, collectVars, cmdVars, ruleVars, callVars>>

\* time.Sleep in text mode, then the deferred i.analyzer.Close() of both
\* modes; a panic goes on after them.
InspectLeave ==
    /\ \/ mainPc = "deferred" /\ runArgs.jsonOutput
       \/ mainPc = "deferred sleep"
    /\ mainPc' = IF runErr = "panic" THEN "crashed" ELSE "returned"
    /\ UNCHANGED <<runArgs, runErr, cur, chans, animPc, term, frames>>
    /\ UNCHANGED <<parseVars, analyzerVars, portVars, collectVars, cmdVars, ruleVars, callVars>>

\* case <-ticker.C: the next frame is drawn
AnimFrame(c) ==
    /\ animPc[c] = "select" /\ frames < MaxFrames
    /\ term' = Append(term, "frame")
    /\ frames' = frames + 1
    /\ UNCHANGED <<mainPc, runArgs, runErr, cur, chans, animPc>>
    /\ UNCHANGED <<parseVars, analyzerVars, portVars, collectVars, cmdVars, ruleVars, callVars>>

\* A variant of the goroutine that takes the value and goes on selecting.
AnimReceiveAndLoop(c) ==
    /\ animPc[c] = "select"
    /\ chans[c].sending \/ chans[c].closed
    /\ chans' = [chans EXCEPT ![c].sending = FALSE, ![c].received = @ + 1]
    /\ UNCHANGED <<mainPc, runArgs, runErr, cur, animPc, term, frames>>
    /\ UNCHANGED <<parseVars, analyzerVars, portVars, collectVars, cmdVars, ruleVars, callVars>>

\* case <-done: a value a sender is waiting with, or the zero value of a
\* closed channel, is taken
AnimReceive(c) ==
    /\ animPc[c] = "select"
    /\ chans[c].sending \/ chans[c].closed
    /\ chans' = [chans EXCEPT ![c].sending = FALSE, ![c].received = @ + 1]
    /\ animPc' = [animPc EXCEPT ![c] = "clearing"]
    /\ UNCHANGED <<mainPc, runArgs, runErr, cur, term, frames>>
    /\ UNCHANGED <<parseVars, analyzerVars, portVars, collectVars, cmdVars, ruleVars, callVars>>

\* fmt.Print("\r\033[K"); return
AnimClear(c) ==
    /\ animPc[c] = "clearing"
    /\ term' = Append(term, "clear")
    /\ animPc' = [animPc EXCEPT ![c] = "done"]
    /\ UNCHANGED <<mainPc, runArgs, runErr, cur, chans, frames>>
    /\ UNCHANGED <<parseVars, analyzerVars, portVars, collectVars, cmdVars, ruleVars, callVars>>

MainStep ==
    InspectByPortBegin \/ InspectByPortResolve \/ InspectByPortSend \/ InspectByPortClose
        \/ InspectByPortFound \/ InspectBegin \/ InspectBody \/ InspectReport
        \/ InspectWarnings \/ InspectJSON \/ InspectDeferredSend \/ InspectDeferredClose
        \/ InspectLeave

NextAnim ==
    MainStep \/ (\E c \in Chans : AnimFrame(c) \/ AnimReceive(c) \/ AnimClear(c))

\* The calling goroutine and the indicator goroutines are scheduled; a
\* ticker need not fire before the stop signal is taken.
SpecAnim ==
    /\ InitAnim /\ [][NextAnim]_vars
    /\ WF_vars(MainStep)
    /\ \A c \in Chans : WF_vars(AnimReceive(c)) /\ WF_vars(AnimClear(c))

Left == mainPc \in {"returned", "crashed"}

\* C21: in text mode every way out of InspectWithOptions and InspectByPort
\* has the indicator goroutine receive the stop signal exactly once and
\* terminate, the send on the done channel is taken, and nothing is sent on
\* a closed channel; in JSON mode no indicator goroutine is started.
C21_StopSignalOnce ==
    /\ [](\A c \in Chans : chans[c].received <= 1 /\ ~chans[c].sentOnClosed)
    /\ [](Left => \A c \in Chans : chans[c].made
                     => chans[c].received = 1 /\ chans[c].closed /\ ~chans[c].sending)
    /\ [](runArgs.jsonOutput => \A c \in Chans : ~chans[c].made /\ animPc[c] = "none")
    /\ [](~runArgs.jsonOutput /\ Left => chans[1].made)
    /\ \A c \in Chans : (animPc[c] = "select") ~> (animPc[c] = "done")
    /\ <>Left

\* A text-mode run by port that drew a frame, announced the process and
\* then failed to find it: both goroutines were stopped and are gone.
C21_Witness ==
    /\ mainPc = "returned" /\ runArgs = [byPort |-> TRUE, jsonOutput |-> FALSE]
    /\ runErr = "process not found" /\ frames > 0
    /\ \A c \in Chans : chans[c].received = 1 /\ animPc[c] = "done"

\* The places of the terminal output where the report or the findings are.
ReportPlaces == { n \in 1..Len(term) : term[n] \in {"report", "warnings"} }

\* C22: in text mode the indicator has been signalled to stop, and writes
\* no further frame or line-clear sequence, before InspectWithOptions
\* writes the report and the findings.
C22_IndicatorStoppedBeforeReport ==
    /\ mainPc \in {"warnings", "deferred"} /\ runErr = "success" /\ ~runArgs.jsonOutput
         => chans[cur].received = 1
    /\ \A n \in ReportPlaces : \A k \in n + 1..Len(term) : term[k] \notin {"frame", "clear"}

====
